---- MODULE Spec2Model ----
(***************************************************************************)
(* Lottery number generator (src/src/utils/lotteryGenerators.ts) and the   *)
(* App component that stores the generated tickets (src/unnamed/part_000). *)
(*                                                                         *)
(* Math.random() is the only input of the generators.  A value it returns  *)
(* is modelled as the rational r / RandDen with 0 <= r < RandDen, and an   *)
(* execution of a generator is cut at its calls of Math.random(): `call`   *)
(* is the activation record of the function called from outside, `pc` its  *)
(* position (the getRandomNumber call that is waiting for the next         *)
(* Math.random() value).                                                   *)
(***************************************************************************)
EXTENDS Integers, Sequences, FiniteSets, TLC

VARIABLES
    call,                 \* activation record of the running / last generator call
    draws,                \* history: the sampler results of the current call, in order
    powerballTickets,     \* App state (useState), newest first
    megaMillionsTickets,  \* App state (useState), newest first
    powerballLog,         \* history: Powerball tickets generated since the last clear, oldest first
    megaMillionsLog       \* history: Mega Millions tickets generated since the last clear, oldest first

vars == <<call, draws, powerballTickets, megaMillionsTickets, powerballLog, megaMillionsLog>>

---------------------------------------------------------------------------
(* Bounds of the model *)

\* Math.random() yields multiples of 1 / RandDen
RandDen == 1000
\* largest count a direct call of generateUniqueNumbers is given
MaxCount == 3
\* cap on the rejected (repeated) sampler results per call in the recorded specification
MaxRejected == 1
\* cap on the length of each display list
MaxTickets == 2

\* numerators of the Math.random() values the unrecorded specification draws from:
\* both ends of [0,1) and the values that produce the documented example ticket
Samples == {0, 60, 160, 320, 540, 640, 960, 999}
\* numerators the recorded specification draws from
TraceSamples == {60, 160, 320, 540, 640, 960}
\* arguments (min, max) given to direct calls of getRandomNumber / generateUniqueNumbers
ArgValues == {0 - 1, 0, 1, 5}
\* counts given to direct calls of generateUniqueNumbers
Counts == (0 - 1) .. MaxCount
\* Math.random() streams (numerators) the App's generators are run on: the
\* documented example, one with a repeated draw, one reaching both ends
RandomStreams ==
    { <<60, 160, 320, 640, 960, 540, 640>>,
      <<960, 640, 640, 320, 160, 60, 999, 0>>,
      <<0, 999, 540, 60, 160, 320, 960>> }

---------------------------------------------------------------------------
(* Program constants *)

WhiteBallCount == 5
WhiteBallMin == 1
PowerballWhiteMax == 69
PowerballMax == 26
MegaMillionsWhiteMax == 70
MegaBallMax == 25
powerPlayOptions == <<2, 3, 4, 5, 10>>
megaplierOptions == <<2, 3, 4, 5>>

\* the value of an array read outside the array's indices
undefined == 0 - 1

---------------------------------------------------------------------------
(* Pure helpers *)

Range(s) == {s[i] : i \in 1 .. Len(s)}

\* variant: Math.round in place of Math.floor
getRandomNumberRounded(min, max, r) ==
    ((2 * r * (max - min + 1) + RandDen) \div (2 * RandDen)) + min

\* Math.floor(Math.random() * (max - min + 1)) + min, Math.random() = r / RandDen
getRandomNumber(min, max, r) == ((r * (max - min + 1)) \div RandDen) + min

\* new Set<number>()
EmptySet == <<>>

\* variant: an array push in place of Set.prototype.add
PushWithoutDedupe(set, v) == Append(set, v)

\* Set.prototype.add: a Set keeps insertion order and ignores a value it holds
SetAdd(set, v) == IF v \in Range(set) THEN set ELSE Append(set, v)

\* variant: numbers.size <= count
LoopGuardInclusive(set, count) == Len(set) <= count

\* the guard of the while loop: numbers.size < count
LoopGuard(set, count) == Len(set) < count

\* Array.from(set): the members in insertion order
ArrayFrom(set) == set

\* variant: the array returned unsorted
KeepInsertionOrder(arr) == arr

\* the 1-based place arr[j] takes under the comparator (a, b) => a - b:
\* behind every smaller element (and, the sort being stable, behind equal
\* elements that stood before it)
PlaceAscending(arr, j) ==
    1 + Cardinality({k \in 1 .. Len(arr) :
            \/ arr[k] - arr[j] < 0
            \/ (arr[k] - arr[j] = 0 /\ k < j)})

\* arr.sort((a, b) => a - b)
SortAscending(arr) ==
    [i \in 1 .. Len(arr) |->
        arr[CHOOSE j \in 1 .. Len(arr) : PlaceAscending(arr, j) = i]]

\* options[i], JavaScript indices from 0
OptionAt(options, i) ==
    IF i \in 0 .. (Len(options) - 1) THEN options[i + 1] ELSE undefined

---------------------------------------------------------------------------
(* Activation records *)

Idle ==
    [fn |-> "none", pc |-> "idle", count |-> 0, min |-> 0, max |-> 0,
     numbersSet |-> <<>>, numbers |-> <<>>, specialBall |-> 0,
     multiplier |-> 0, value |-> 0]

\* return Array.from(numbers).sort(...): the Set dies with the activation, and
\* control is back in the caller, which is the outside world (a direct call) or
\* a ticket generator about to draw its ball
ReturnSorted(f) ==
    [f EXCEPT !.numbers = SortAscending(ArrayFrom(f.numbersSet)),
              !.numbersSet = <<>>,
              !.pc = IF f.fn = "generateUniqueNumbers" THEN "returned" ELSE "special"]

\* entry of generateUniqueNumbers(count, min, max) on behalf of fn
EnterUniqueNumbers(fn, count, min, max) ==
    LET f == [Idle EXCEPT !.fn = fn, !.pc = "loop", !.count = count,
                          !.min = min, !.max = max, !.numbersSet = EmptySet]
    IN  IF LoopGuard(f.numbersSet, count) THEN f ELSE ReturnSorted(f)

\* one iteration of the while loop, v the result of getRandomNumber(min, max)
generateUniqueNumbers(f, v) ==
    LET g == [f EXCEPT !.numbersSet = SetAdd(f.numbersSet, v)]
    IN  IF LoopGuard(g.numbersSet, g.count) THEN g ELSE ReturnSorted(g)

\* variant: a powerball that repeats a white ball is drawn again
generatePowerballTicketDistinctBall(f, v) ==
    IF f.pc = "special"
    THEN IF v \in Range(f.numbers) THEN f
         ELSE [f EXCEPT !.specialBall = v, !.pc = "multiplier"]
    ELSE [f EXCEPT !.multiplier = OptionAt(powerPlayOptions, v), !.pc = "returned"]

\* generatePowerballTicket after its generateUniqueNumbers call returned
generatePowerballTicket(f, v) ==
    IF f.pc = "special"
    THEN [f EXCEPT !.specialBall = v, !.pc = "multiplier"]
    ELSE [f EXCEPT !.multiplier = OptionAt(powerPlayOptions, v), !.pc = "returned"]

\* generateMegaMillionsTicket after its generateUniqueNumbers call returned
generateMegaMillionsTicket(f, v) ==
    IF f.pc = "special"
    THEN [f EXCEPT !.specialBall = v, !.pc = "multiplier"]
    ELSE [f EXCEPT !.multiplier = OptionAt(megaplierOptions, v), !.pc = "returned"]

\* the frame of a call of fn from outside, up to its first Math.random()
Enter(fn, count, min, max) ==
    CASE fn = "getRandomNumber" ->
            [Idle EXCEPT !.fn = fn, !.pc = "sample", !.min = min, !.max = max]
      [] fn = "generateUniqueNumbers" ->
            EnterUniqueNumbers(fn, count, min, max)
      [] fn = "generatePowerballTicket" ->
            EnterUniqueNumbers(fn, WhiteBallCount, WhiteBallMin, PowerballWhiteMax)
      [] fn = "generateMegaMillionsTicket" ->
            EnterUniqueNumbers(fn, WhiteBallCount, WhiteBallMin, MegaMillionsWhiteMax)

\* the arguments of the getRandomNumber call the frame is waiting in
SamplerMin(f) ==
    CASE f.pc \in {"loop", "sample"} -> f.min
      [] f.pc = "special" -> 1
      [] f.pc = "multiplier" -> 0

SamplerMax(f) ==
    CASE f.pc \in {"loop", "sample"} -> f.max
      [] f.pc = "special" ->
            IF f.fn = "generatePowerballTicket" THEN PowerballMax ELSE MegaBallMax
      [] f.pc = "multiplier" ->
            IF f.fn = "generatePowerballTicket"
            THEN Len(powerPlayOptions) - 1 ELSE Len(megaplierOptions) - 1

Waiting(f) == f.pc \in {"loop", "sample", "special", "multiplier"}

\* the frame continues with v, the value its getRandomNumber call returned
Resume(f, v) ==
    CASE f.pc = "sample" -> [f EXCEPT !.value = v, !.pc = "returned"]
      [] f.pc = "loop" -> generateUniqueNumbers(f, v)
      [] f.pc \in {"special", "multiplier"} ->
            IF f.fn = "generatePowerballTicket"
            THEN generatePowerballTicket(f, v)
            ELSE generateMegaMillionsTicket(f, v)

\* the frame continues with Math.random() = r / RandDen
Step(f, r) == Resume(f, getRandomNumber(SamplerMin(f), SamplerMax(f), r))

---------------------------------------------------------------------------
(* Generator calls, one Math.random() at a time *)

AppUnchanged ==
    UNCHANGED <<powerballTickets, megaMillionsTickets, powerballLog, megaMillionsLog>>

\* variant: the Set lives outside the function and keeps the last result
InvokeWithLeftoverSet(fn, count, min, max) ==
    /\ call.pc \in {"idle", "returned"}
    /\ call' = [Enter(fn, count, min, max) EXCEPT !.numbersSet = call.numbers]
    /\ draws' = <<>>
    /\ AppUnchanged

Invoke(fn, count, min, max) ==
    /\ call.pc \in {"idle", "returned"}
    /\ call' = Enter(fn, count, min, max)
    /\ draws' = <<>>
    /\ AppUnchanged

CallGetRandomNumber ==
    \E min \in ArgValues, max \in ArgValues :
        /\ min <= max
        /\ Invoke("getRandomNumber", 0, min, max)

CallGenerateUniqueNumbers ==
    \E count \in Counts, min \in ArgValues, max \in ArgValues :
        /\ min <= max
        /\ Invoke("generateUniqueNumbers", count, min, max)

\* a direct call on the range 0 .. 2 whose sampler results are recorded
RecordedCallGenerateUniqueNumbers ==
    \E count \in Counts : Invoke("generateUniqueNumbers", count, 0, 2)

CallGeneratePowerballTicket == Invoke("generatePowerballTicket", 0, 0, 0)

CallGenerateMegaMillionsTicket == Invoke("generateMegaMillionsTicket", 0, 0, 0)

\* Math.random() returns and the call runs on to its next Math.random()
MathRandom ==
    \E r \in Samples :
        /\ Waiting(call)
        /\ call' = Step(call, r)
        /\ UNCHANGED draws
        /\ AppUnchanged

\* the same, the sampler result recorded
RecordedMathRandom ==
    \E r \in TraceSamples :
        LET v == getRandomNumber(SamplerMin(call), SamplerMax(call), r) IN
        /\ Waiting(call)
        /\ (call.pc = "loop" /\ v \in Range(call.numbersSet))
                => Len(draws) - Len(call.numbersSet) < MaxRejected
        /\ call' = Step(call, r)
        /\ draws' = Append(draws, v)
        /\ AppUnchanged

Init ==
    /\ call = Idle
    /\ draws = <<>>
    /\ powerballTickets = <<>>
    /\ megaMillionsTickets = <<>>
    /\ powerballLog = <<>>
    /\ megaMillionsLog = <<>>

Next ==
    \/ CallGetRandomNumber
    \/ CallGenerateUniqueNumbers
    \/ CallGeneratePowerballTicket
    \/ CallGenerateMegaMillionsTicket
    \/ MathRandom

Spec == Init /\ [][Next]_vars

TraceNext ==
    \/ RecordedCallGenerateUniqueNumbers
    \/ CallGeneratePowerballTicket
    \/ CallGenerateMegaMillionsTicket
    \/ RecordedMathRandom

TraceSpec == Init /\ [][TraceNext]_vars

\* the sampler does not for ever return values the Set already holds
FreshDraw == MathRandom /\ call' # call

FairSpec == Spec /\ WF_vars(FreshDraw)

---------------------------------------------------------------------------
(* The App component: each handler runs to completion *)

\* the call runs on the stream rs of Math.random() values until it returns
RECURSIVE RunToReturn(_, _)
RunToReturn(f, rs) ==
    IF ~Waiting(f) \/ rs = <<>> THEN f
    ELSE RunToReturn(Step(f, Head(rs)), Tail(rs))

\* return { numbers, powerball, powerPlay }
PowerballTicket(f) ==
    [numbers |-> f.numbers, powerball |-> f.specialBall, powerPlay |-> f.multiplier]

\* return { numbers, megaBall, megaplier }
MegaMillionsTicket(f) ==
    [numbers |-> f.numbers, megaBall |-> f.specialBall, megaplier |-> f.multiplier]

\* variant: [...tickets, newTicket]
AppendLast(newTicket, tickets) == Append(tickets, newTicket)

\* [newTicket, ...tickets]
Prepend(newTicket, tickets) == <<newTicket>> \o tickets

\* variant: one list shared by both variants' handlers, the other reset
handleGeneratePowerballSharedState ==
    \E rs \in RandomStreams :
        LET f == RunToReturn(Enter("generatePowerballTicket", 0, 0, 0), rs)
            newTicket == PowerballTicket(f)
        IN  /\ f.pc = "returned"
            /\ Len(powerballTickets) < MaxTickets
            /\ powerballTickets' = Prepend(newTicket, powerballTickets)
            /\ powerballLog' = Append(powerballLog, newTicket)
            /\ megaMillionsTickets' = <<>>
            /\ megaMillionsLog' = <<>>
            /\ UNCHANGED <<call, draws>>

handleGeneratePowerball ==
    \E rs \in RandomStreams :
        LET f == RunToReturn(Enter("generatePowerballTicket", 0, 0, 0), rs)
            newTicket == PowerballTicket(f)
        IN  /\ f.pc = "returned"
            /\ Len(powerballTickets) < MaxTickets
            /\ powerballTickets' = Prepend(newTicket, powerballTickets)
            /\ powerballLog' = Append(powerballLog, newTicket)
            /\ UNCHANGED <<megaMillionsTickets, megaMillionsLog, call, draws>>

handleGenerateMegaMillions ==
    \E rs \in RandomStreams :
        LET f == RunToReturn(Enter("generateMegaMillionsTicket", 0, 0, 0), rs)
            newTicket == MegaMillionsTicket(f)
        IN  /\ f.pc = "returned"
            /\ Len(megaMillionsTickets) < MaxTickets
            /\ megaMillionsTickets' = Prepend(newTicket, megaMillionsTickets)
            /\ megaMillionsLog' = Append(megaMillionsLog, newTicket)
            /\ UNCHANGED <<powerballTickets, powerballLog, call, draws>>

\* the Clear All button is rendered only while a list holds a ticket
handleClearAll ==
    /\ Len(powerballTickets) > 0 \/ Len(megaMillionsTickets) > 0
    /\ powerballTickets' = <<>>
    /\ megaMillionsTickets' = <<>>
    /\ powerballLog' = <<>>
    /\ megaMillionsLog' = <<>>
    /\ UNCHANGED <<call, draws>>

AppNext ==
    \/ handleGeneratePowerball
    \/ handleGenerateMegaMillions
    \/ handleClearAll

AppSpec == Init /\ [][AppNext]_vars

---------------------------------------------------------------------------
(* Properties *)

Pool(f) == f.max - f.min + 1

StrictlyAscending(s) == \A i \in 1 .. (Len(s) - 1) : s[i] < s[i + 1]

AllIn(s, lo, hi) == \A i \in 1 .. Len(s) : s[i] \in lo .. hi

Returned(fn) == call.fn = fn /\ call.pc = "returned"

\* C1: every ticket generatePowerballTicket returns has 5 strictly ascending
\* numbers in [1,69], a powerball in [1,26] and a powerPlay in {2,3,4,5,10}.
C1_PowerballTicketShape ==
    Returned("generatePowerballTicket") =>
        /\ Len(call.numbers) = 5
        /\ StrictlyAscending(call.numbers)
        /\ AllIn(call.numbers, 1, 69)
        /\ call.specialBall \in 1 .. 26
        /\ call.multiplier \in {2, 3, 4, 5, 10}

\* a returned Powerball ticket at both ends of every range
C1_Witness ==
    /\ Returned("generatePowerballTicket")
    /\ call.numbers[1] = 1
    /\ call.numbers[5] = 69
    /\ call.specialBall = 26
    /\ call.multiplier = 10

\* C2: every ticket generateMegaMillionsTicket returns has 5 strictly ascending
\* numbers in [1,70], a megaBall in [1,25] and a megaplier in {2,3,4,5}.
C2_MegaMillionsTicketShape ==
    Returned("generateMegaMillionsTicket") =>
        /\ Len(call.numbers) = 5
        /\ StrictlyAscending(call.numbers)
        /\ AllIn(call.numbers, 1, 70)
        /\ call.specialBall \in 1 .. 25
        /\ call.multiplier \in {2, 3, 4, 5}

\* a returned Mega Millions ticket at both ends of every range
C2_Witness ==
    /\ Returned("generateMegaMillionsTicket")
    /\ call.numbers[1] = 1
    /\ call.numbers[5] = 70
    /\ call.specialBall = 25
    /\ call.multiplier = 5

UniqueNumbersResult ==
    /\ Len(call.numbers) = call.count
    /\ StrictlyAscending(call.numbers)
    /\ AllIn(call.numbers, call.min, call.max)

\* C3 as stated: for all integers count, min <= max with max - min + 1 >= count,
\* a returned generateUniqueNumbers(count, min, max) holds exactly count
\* pairwise distinct integers of [min, max] in ascending order.
C3_AsStated ==
    (Returned("generateUniqueNumbers") /\ call.min <= call.max
        /\ Pool(call) >= call.count) => UniqueNumbersResult

\* C3 amended: the same for count >= 0 (a negative count returns the empty
\* array, whose length is not count).
C3_UniqueNumbersResult ==
    (Returned("generateUniqueNumbers") /\ call.min <= call.max
        /\ Pool(call) >= call.count /\ call.count >= 0) => UniqueNumbersResult

\* a returned call that had to take every value of its range
C3_Witness ==
    /\ Returned("generateUniqueNumbers")
    /\ call.count = 3
    /\ Pool(call) = 3
    /\ call.numbers = <<call.min, call.min + 1, call.max>>

\* C4: for min <= max and every Math.random() value, getRandomNumber(min, max)
\* returns an integer of [min, max], and min itself when min = max.
C4_SamplerInBounds ==
    (Returned("getRandomNumber") /\ call.min <= call.max) =>
        /\ call.value \in call.min .. call.max
        /\ (call.min = call.max => call.value = call.min)

\* getRandomNumber(5, 5) returned 5
C4_Witness ==
    /\ Returned("getRandomNumber")
    /\ call.min = 5
    /\ call.max = 5
    /\ call.value = 5

\* C5: a call of generateUniqueNumbers with count > max - min + 1 is rejected
\* with InvalidParameters: it neither enters the loop nor returns a result.
C5_FailsFast ==
    (call.fn = "generateUniqueNumbers" /\ call.min <= call.max
        /\ call.count > Pool(call)) => call.pc \notin {"loop", "returned"}

\* the position in s of the n-th distinct value, 0 when s holds fewer
RECURSIVE NthDistinctAt(_, _, _, _)
NthDistinctAt(s, n, i, seen) ==
    IF i > Len(s) THEN 0
    ELSE IF s[i] \in seen THEN NthDistinctAt(s, n, i + 1, seen)
    ELSE IF Cardinality(seen) + 1 = n THEN i
    ELSE NthDistinctAt(s, n, i + 1, seen \cup {s[i]})

\* the members of the finite set S of integers in ascending order
RECURSIVE Ascending(_)
Ascending(S) ==
    IF S = {} THEN <<>>
    ELSE LET m == CHOOSE x \in S : \A y \in S : x <= y
         IN  <<m>> \o Ascending(S \ {m})

\* the ticket C6 describes for the sampler results s
PowerballTicketOf(s) ==
    LET k == NthDistinctAt(s, 5, 1, {})
    IN  [numbers |-> Ascending({s[i] : i \in 1 .. k}),
         powerball |-> s[k + 1],
         powerPlay |-> <<2, 3, 4, 5, 10>>[s[k + 2] + 1]]

\* C6: the ticket generatePowerballTicket returns is: numbers, the first 5
\* distinct sampler results in ascending order; powerball, the next result;
\* powerPlay, [2,3,4,5,10] at the result after that.
C6_TicketFromDraws ==
    Returned("generatePowerballTicket") =>
        /\ NthDistinctAt(draws, 5, 1, {}) > 0
        /\ Len(draws) = NthDistinctAt(draws, 5, 1, {}) + 2
        /\ [numbers |-> call.numbers, powerball |-> call.specialBall,
            powerPlay |-> call.multiplier] = PowerballTicketOf(draws)

\* the documented example: draws 5,12,23,45,67,15,3
C6_Witness ==
    /\ Returned("generatePowerballTicket")
    /\ draws = <<5, 12, 23, 45, 67, 15, 3>>
    /\ call.numbers = <<5, 12, 23, 45, 67>>
    /\ call.specialBall = 15
    /\ call.multiplier = 5

\* the frame f continued with the sampler results vs
RECURSIVE Replay(_, _)
Replay(f, vs) ==
    IF vs = <<>> \/ ~Waiting(f) THEN f
    ELSE Replay(Resume(f, Head(vs)), Tail(vs))

\* C7: whatever calls came before, a returned call holds what a first call
\* of the same function with the same arguments and the same sampler results
\* holds.
C7_Reproducible ==
    call.pc = "returned" =>
        call = Replay(Enter(call.fn, call.count, call.min, call.max), draws)

\* a ticket returned after one sampler result was rejected
C7_Witness ==
    /\ Returned("generateMegaMillionsTicket")
    /\ Len(draws) = 8

RECURSIVE Reverse(_)
Reverse(s) == IF s = <<>> THEN <<>> ELSE Append(Reverse(Tail(s)), Head(s))

\* C8: each display list holds the tickets of its variant generated since the
\* last Clear All, one per generate action, newest first.
C8_ListsNewestFirst ==
    /\ powerballTickets = Reverse(powerballLog)
    /\ megaMillionsTickets = Reverse(megaMillionsLog)

\* two different Powerball tickets and a Mega Millions ticket on display
C8_Witness ==
    /\ Len(powerballTickets) = 2
    /\ powerballTickets[1] # powerballTickets[2]
    /\ Len(megaMillionsTickets) = 1

\* the size of the Set, or of the array made of it once the loop is left
SetSize(f) == IF f.pc = "loop" THEN Len(f.numbersSet) ELSE Len(f.numbers)

\* C9: with max - min + 1 >= count the loop of generateUniqueNumbers is left
\* (given FreshDraw's fairness), and an iteration neither shrinks the Set nor
\* takes it beyond count.
C9_LoopTerminates ==
    /\ (call.pc = "loop" /\ Pool(call) >= call.count) ~> (call.pc # "loop")
    /\ [][(call.pc = "loop" /\ Pool(call) >= call.count) =>
            /\ SetSize(call') >= SetSize(call)
            /\ SetSize(call') <= call.count]_vars

\* a direct call returned with as many numbers as its range holds
C9_Witness ==
    /\ Returned("generateUniqueNumbers")
    /\ call.count = 3
    /\ Pool(call) = 3
    /\ Len(call.numbers) = 3

\* C10: with count > max - min + 1 (min <= max) generateUniqueNumbers never
\* returns: it stays in its loop, the Set never larger than the range.
C10_NeverReturns ==
    (call.fn = "generateUniqueNumbers" /\ call.min <= call.max
        /\ call.count > Pool(call)) =>
        /\ call.pc = "loop"
        /\ Len(call.numbersSet) <= Pool(call)

\* a call whose Set holds its whole range and still lacks a number
C10_Witness ==
    /\ call.fn = "generateUniqueNumbers"
    /\ call.pc = "loop"
    /\ Pool(call) = 2
    /\ call.count = 3
    /\ Len(call.numbersSet) = 2

\* the numerators of the values Math.random() can return
Numerators == 0 .. (RandDen - 1)

\* the least numerator r with Math.floor((r / RandDen) * n) = k
LeastNumerator(k, n) == ((k * RandDen) + n - 1) \div n

TicketCall(f) == f.fn \in {"generatePowerballTicket", "generateMegaMillionsTicket"}

\* what the call holds of its 5 numbers: the Set in the loop, the array after it
NumbersHeld(f) == IF f.pc = "loop" THEN Range(f.numbersSet) ELSE Range(f.numbers)

\* C11: in both generators the special number is drawn without regard to the
\* numbers.  Whatever the loop holds, each value of the white range can be the
\* next one it takes; and whatever 5 numbers it returned, each value of the
\* special range, one of the 5 numbers or not, is the special number of a
\* ticket with these numbers for some Math.random() value.
C11_SpecialIndependent ==
    /\ (TicketCall(call) /\ call.pc = "loop") =>
            \A w \in call.min .. call.max :
                LET r == LeastNumerator(w - call.min, Pool(call))
                IN  /\ r \in Numerators
                    /\ NumbersHeld(Step(call, r)) = NumbersHeld(call) \cup {w}
    /\ (TicketCall(call) /\ call.pc = "special") =>
            \A v \in SamplerMin(call) .. SamplerMax(call) :
                \E r \in Numerators :
                    /\ Step(call, r).pc = "multiplier"
                    /\ Step(call, r).numbers = call.numbers
                    /\ Step(call, r).specialBall = v

\* a returned Powerball ticket whose powerball is one of its numbers
C11_Witness ==
    /\ Returned("generatePowerballTicket")
    /\ call.specialBall \in Range(call.numbers)
    /\ \E v \in 1 .. PowerballMax : v \notin Range(call.numbers)

\* the tickets of `before` are in `after`, same values, same order, behind
\* exactly one new ticket
KeptBehindNew(before, after) ==
    /\ Len(after) = Len(before) + 1
    /\ \A i \in 1 .. Len(before) : after[i + 1] = before[i]

\* C12: a generate action adds one ticket at the head of its own list and
\* leaves the other list and every stored ticket as they were; a step that
\* changes the stored tickets in any other way is Clear All, which removes
\* them all.
C12_StoredTicketsKept ==
    [][ /\ handleGeneratePowerball =>
                /\ megaMillionsTickets' = megaMillionsTickets
                /\ KeptBehindNew(powerballTickets, powerballTickets')
        /\ handleGenerateMegaMillions =>
                /\ powerballTickets' = powerballTickets
                /\ KeptBehindNew(megaMillionsTickets, megaMillionsTickets')
        /\ \/ /\ megaMillionsTickets' = megaMillionsTickets
              /\ KeptBehindNew(powerballTickets, powerballTickets')
           \/ /\ powerballTickets' = powerballTickets
              /\ KeptBehindNew(megaMillionsTickets, megaMillionsTickets')
           \/ /\ handleClearAll
              /\ powerballTickets' = <<>>
              /\ megaMillionsTickets' = <<>> ]_vars

\* both lists full, each holding two different tickets: generate actions of
\* either variant ran while the other list held tickets
C12_Witness ==
    /\ Len(powerballTickets) = MaxTickets
    /\ Len(megaMillionsTickets) = MaxTickets
    /\ powerballTickets[1] # powerballTickets[2]
    /\ megaMillionsTickets[1] # megaMillionsTickets[2]

====
